---- MODULE Spec2Model ----
(***************************************************************************)
(* The note editor of the sticky-note application: the line-based document *)
(* (EditorLine[]), its plain-text codec (parseContent / serializeLines),   *)
(* the checklist propagation (autoCheckParents) and the keyboard-driven    *)
(* edit handlers of the NoteEditor component.                              *)
(*                                                                         *)
(* Strings are sequences of one-character strings, so that slicing,        *)
(* prefix tests and splitting are computed as the code computes them.      *)
(* Line indices are 1-based here; the code's index is the model's minus 1. *)
(***************************************************************************)
EXTENDS Integers, Sequences, FiniteSets, TLC

(***************************************************************************)
(* Bounds of the model.                                                    *)
(***************************************************************************)
MaxLines == 2            \* lines of a Document in the editor specification
MaxTextLen == 2          \* longest text the literal-indent Tab may produce
MaxChecklistLines == 4   \* lines of a Document in the checklist specification
MaxCodecLines == 2       \* raw lines of a content in the codec specification
MaxWrites == 3           \* writes to the store in the save specifications
MaxSplitLines == 3       \* lines of a Document in the split specification
MaxDeleteLines == 3      \* lines of a Document in the deletion specification
MaxSpacedLen == 4        \* characters of a text line in the literal-indent specification
MaxSyncLines == 3        \* lines of a content in the content-sync specification
MaxPropagateLines == 3   \* lines of a Document in the propagation specification
MaxFrameLines == 2       \* lines of a Document in the frame specification
MaxRestoreLines == 3     \* lines of a Document in the split-and-delete specification

(***************************************************************************)
(* Program constants.                                                      *)
(***************************************************************************)
MaxIndent == 3           \* Math.min(line.indent + 1, 3)
PrefixLen == 6           \* stripped.slice(6)
MarkerLen == 2           \* stripped.slice(2)

NL == "\n"
IndentMarker == <<" ", " ">>
CheckedPrefix == <<"-", " ", "[", "x", "]", " ">>
UncheckedPrefix == <<"-", " ", "[", " ", "]", " ">>

(***************************************************************************)
(* String primitives of the host language.                                 *)
(***************************************************************************)
StartsWith(s, p) == Len(s) >= Len(p) /\ SubSeq(s, 1, Len(p)) = p

Slice(s, n) == SubSeq(s, n + 1, Len(s))

Substring(s, a, b) == SubSeq(s, a + 1, b)

RECURSIVE Repeat(_, _)
Repeat(s, n) == IF n <= 0 THEN <<>> ELSE s \o Repeat(s, n - 1)

FirstBreak(s) == CHOOSE k \in 1..Len(s) : s[k] = NL /\ \A m \in 1..(k - 1) : s[m] # NL

RECURSIVE SplitLines(_)
SplitLines(s) ==
  IF \E k \in 1..Len(s) : s[k] = NL
  THEN <<SubSeq(s, 1, FirstBreak(s) - 1)>> \o SplitLines(SubSeq(s, FirstBreak(s) + 1, Len(s)))
  ELSE <<s>>

RECURSIVE JoinLines(_)
JoinLines(ss) ==
  IF Len(ss) = 0 THEN <<>>
  ELSE IF Len(ss) = 1 THEN ss[1]
  ELSE ss[1] \o <<NL>> \o JoinLines(Tail(ss))

(***************************************************************************)
(* EditorLine and the codec.                                               *)
(***************************************************************************)
TextLine(t) == [type |-> "text", text |-> t, checked |-> FALSE, indent |-> 0]

TodoLine(t, c, n) == [type |-> "todo", text |-> t, checked |-> c, indent |-> n]

RECURSIVE StripIndent(_, _)
StripIndent(stripped, indent) ==
  IF StartsWith(stripped, IndentMarker)
  THEN StripIndent(Slice(stripped, MarkerLen), indent + 1)
  ELSE [indent |-> indent, stripped |-> stripped]

parseLineStoringStripped(line) ==
  LET r == StripIndent(line, 0) IN
  IF StartsWith(r.stripped, CheckedPrefix)
  THEN TodoLine(Slice(r.stripped, PrefixLen), TRUE, r.indent)
  ELSE IF StartsWith(r.stripped, UncheckedPrefix)
  THEN TodoLine(Slice(r.stripped, PrefixLen), FALSE, r.indent)
  ELSE TextLine(r.stripped)

\* the classification that recognises the prefix but forgets the indent
parseLineLosingIndent(line) ==
  LET r == StripIndent(line, 0) IN
  IF StartsWith(r.stripped, CheckedPrefix)
  THEN TodoLine(Slice(r.stripped, PrefixLen), TRUE, 0)
  ELSE IF StartsWith(r.stripped, UncheckedPrefix)
  THEN TodoLine(Slice(r.stripped, PrefixLen), FALSE, 0)
  ELSE TextLine(line)

parseLine(line) ==
  LET r == StripIndent(line, 0) IN
  IF StartsWith(r.stripped, CheckedPrefix)
  THEN TodoLine(Slice(r.stripped, PrefixLen), TRUE, r.indent)
  ELSE IF StartsWith(r.stripped, UncheckedPrefix)
  THEN TodoLine(Slice(r.stripped, PrefixLen), FALSE, r.indent)
  ELSE TextLine(line)

\* the parse that skips blank raw lines
parseContentDroppingBlank(content) ==
  IF content = <<>> THEN <<TextLine(<<>>)>>
  ELSE LET raw == SelectSeq(SplitLines(content), LAMBDA r : r # <<>>)
       IN  [k \in 1..Len(raw) |-> parseLine(raw[k])]

parseContent(content) ==
  IF content = <<>> THEN <<TextLine(<<>>)>>
  ELSE LET raw == SplitLines(content) IN [k \in 1..Len(raw) |-> parseLine(raw[k])]

serializeLine(line) ==
  IF line.type = "todo"
  THEN Repeat(IndentMarker, line.indent)
         \o <<"-", " ", "[", IF line.checked THEN "x" ELSE " ", "]", " ">>
         \o line.text
  ELSE line.text

serializeLines(ls) == JoinLines([k \in 1..Len(ls) |-> serializeLine(ls[k])])

(***************************************************************************)
(* Checklist propagation.                                                  *)
(***************************************************************************)
\* for (let i = currentIndex - 1; i >= 0; i--): the nearest parent, 0 if none
RECURSIVE FindParent(_, _, _)
FindParent(ls, i, ind) ==
  IF i < 1 THEN 0
  ELSE IF ls[i].type # "todo" THEN 0
  ELSE IF ls[i].indent < ind THEN i
  ELSE FindParent(ls, i - 1, ind)

\* for (let j = parentIndex + 1; j < newLines.length; j++)
RECURSIVE ScanChildren(_, _, _, _)
ScanChildren(ls, j, childIndent, hasChildren) ==
  IF j > Len(ls) THEN [hasChildren |-> hasChildren, allChecked |-> TRUE]
  ELSE IF ls[j].type # "todo" \/ ls[j].indent < childIndent
  THEN [hasChildren |-> hasChildren, allChecked |-> TRUE]
  ELSE IF ls[j].indent = childIndent
  THEN IF ~ls[j].checked
       THEN [hasChildren |-> TRUE, allChecked |-> FALSE]
       ELSE ScanChildren(ls, j + 1, childIndent, TRUE)
  ELSE ScanChildren(ls, j + 1, childIndent, hasChildren)

\* a recomputation that writes the result one line below the parent
UpdateParentOffByOne(newLines, parentIndex) ==
  LET parent == newLines[parentIndex]
      r == ScanChildren(newLines, parentIndex + 1, parent.indent + 1, FALSE)
  IN IF r.hasChildren
     THEN [newLines EXCEPT ![parentIndex + 1] = [@ EXCEPT !.checked = r.allChecked]]
     ELSE newLines

\* one pass of the while loop: the parent of currentIndex recomputed
UpdateParent(newLines, parentIndex) ==
  LET parent == newLines[parentIndex]
      r == ScanChildren(newLines, parentIndex + 1, parent.indent + 1, FALSE)
  IN IF r.hasChildren
     THEN [newLines EXCEPT ![parentIndex] = [parent EXCEPT !.checked = r.allChecked]]
     ELSE newLines

\* while (currentIndex >= 0)
RECURSIVE AutoCheckLoop(_, _)
AutoCheckLoop(newLines, currentIndex) ==
  IF currentIndex < 1 THEN newLines
  ELSE IF newLines[currentIndex].type # "todo" \/ newLines[currentIndex].indent = 0
  THEN newLines
  ELSE LET parentIndex ==
             FindParent(newLines, currentIndex - 1, newLines[currentIndex].indent)
       IN IF parentIndex = 0 THEN newLines
          ELSE AutoCheckLoop(UpdateParent(newLines, parentIndex), parentIndex)

\* a loop that keeps its index when it has updated the parent
RECURSIVE AutoCheckStepsStuck(_, _, _)
AutoCheckStepsStuck(newLines, currentIndex, fuel) ==
  IF fuel = 0 THEN [lines |-> newLines, visits |-> <<>>, done |-> FALSE]
  ELSE IF currentIndex < 1 THEN [lines |-> newLines, visits |-> <<>>, done |-> TRUE]
  ELSE IF newLines[currentIndex].type # "todo" \/ newLines[currentIndex].indent = 0
  THEN [lines |-> newLines, visits |-> <<currentIndex>>, done |-> TRUE]
  ELSE LET parentIndex ==
             FindParent(newLines, currentIndex - 1, newLines[currentIndex].indent)
       IN IF parentIndex = 0
          THEN [lines |-> newLines, visits |-> <<currentIndex>>, done |-> TRUE]
          ELSE LET rest == AutoCheckStepsStuck(UpdateParent(newLines, parentIndex),
                                               currentIndex, fuel - 1)
               IN [lines |-> rest.lines,
                   visits |-> <<currentIndex>> \o rest.visits,
                   done |-> rest.done]

\* the while loop run for at most fuel passes: the lines it leaves, the
\* values currentIndex took, and whether the loop was left within the passes
RECURSIVE AutoCheckSteps(_, _, _)
AutoCheckSteps(newLines, currentIndex, fuel) ==
  IF fuel = 0 THEN [lines |-> newLines, visits |-> <<>>, done |-> FALSE]
  ELSE IF currentIndex < 1 THEN [lines |-> newLines, visits |-> <<>>, done |-> TRUE]
  ELSE IF newLines[currentIndex].type # "todo" \/ newLines[currentIndex].indent = 0
  THEN [lines |-> newLines, visits |-> <<currentIndex>>, done |-> TRUE]
  ELSE LET parentIndex ==
             FindParent(newLines, currentIndex - 1, newLines[currentIndex].indent)
       IN IF parentIndex = 0
          THEN [lines |-> newLines, visits |-> <<currentIndex>>, done |-> TRUE]
          ELSE LET rest == AutoCheckSteps(UpdateParent(newLines, parentIndex),
                                          parentIndex, fuel - 1)
               IN [lines |-> rest.lines,
                   visits |-> <<currentIndex>> \o rest.visits,
                   done |-> rest.done]

\* the single-level propagation that stops after the nearest parent
autoCheckParentsSingleLevel(ls, changedIndex) ==
  IF ls[changedIndex].type # "todo" \/ ls[changedIndex].indent = 0 THEN ls
  ELSE LET parentIndex == FindParent(ls, changedIndex - 1, ls[changedIndex].indent)
       IN IF parentIndex = 0 THEN ls ELSE UpdateParent(ls, parentIndex)

autoCheckParents(ls, changedIndex) == AutoCheckLoop(ls, changedIndex)

(***************************************************************************)
(* State of the NoteEditor component.                                      *)
(***************************************************************************)
VARIABLES
  lines,             \* useState<EditorLine[]>
  content,           \* the content prop (note.content of the host)
  isInternalChange,  \* isInternalChange.current, after the content effect has run
  focusIndexRef,     \* focusIndexRef.current, 0 for null
  lastOp,            \* the input event handled last: [op, idx]
  directive,         \* the focus() or caret call of the last step: [kind, at]
  store,             \* the contents updateNote has written for this note, in order
  pendingContentRef, \* pendingContentRef.current, Null for null
  saveTimeoutRef,    \* saveTimeoutRef.current, 0 for null
  timers,            \* the armed debounce timers: [id, content of the closure]
  saveNowCalls,      \* the saveNow calls waiting on their updateNote
  lastUpdate,        \* the content passed to updateContent last, Null before
  mounted,           \* the useNote effect has not been cleaned up
  sourceStore,       \* the stored content of the other note
  sourcePending,     \* the other window's debounced content, Null when idle
  notes,             \* the menu's getAllNotes snapshot of the other note
  merge              \* handleMergeNote in progress: [pc, merged]

editorVars == <<lines, content, isInternalChange, focusIndexRef, lastOp, directive>>
hookVars == <<store, pendingContentRef, saveTimeoutRef, timers, saveNowCalls,
              lastUpdate, mounted>>
sourceVars == <<sourceStore, sourcePending, notes, merge>>
vars == <<editorVars, hookVars, sourceVars>>

NoFocus == 0

\* what a step asks of the DOM: nothing, focus() on the textarea of a line,
\* or the caret of the focused textarea put at a position
NoDirective == [kind |-> "none", at |-> 0]

FocusOn(i) == [kind |-> "focus", at |-> i]

CaretAt(pos) == [kind |-> "caret", at |-> pos]

(***************************************************************************)
(* useNote: the debounced save of the content.  A ref that holds null is   *)
(* Null (no content is a sequence of that shape), a timer ref that holds   *)
(* null is NoTimer.  setTimeout hands out an id no armed timer has.        *)
(***************************************************************************)
Null == <<"null">>

NoTimer == 0

FreshTimer(ts) ==
  CHOOSE n \in 1..(Cardinality(ts) + 1) :
    /\ \A t \in ts : t.id # n
    /\ \A m \in 1..(n - 1) : \E t \in ts : t.id = m

clearTimeout(ts, ref) == { t \in ts : t.id # ref }

HookIdle ==
  /\ store = <<>>
  /\ pendingContentRef = Null
  /\ saveTimeoutRef = NoTimer
  /\ timers = {}
  /\ saveNowCalls = <<>>
  /\ lastUpdate = Null
  /\ mounted = TRUE

\* no merge is running
MergeIdle == [pc |-> "idle", merged |-> Null]

SourceIdle(c) ==
  /\ sourceStore = c
  /\ sourcePending = Null
  /\ notes = Null
  /\ merge = MergeIdle

updateContentWithoutClear(c) ==
  /\ pendingContentRef' = c
  /\ timers' = timers \cup {[id |-> FreshTimer(timers), content |-> c]}
  /\ saveTimeoutRef' = FreshTimer(timers)
  /\ lastUpdate' = c
  /\ UNCHANGED <<store, saveNowCalls, mounted>>

updateContent(c) ==
  /\ pendingContentRef' = c
  /\ LET kept == clearTimeout(timers, saveTimeoutRef)
     IN /\ timers' = kept \cup {[id |-> FreshTimer(kept), content |-> c]}
        /\ saveTimeoutRef' = FreshTimer(kept)
  /\ lastUpdate' = c
  /\ UNCHANGED <<store, saveNowCalls, mounted>>

(***************************************************************************)
(* Inputs: the texts a change event may carry and the contents a note may  *)
(* be loaded with.                                                         *)
(***************************************************************************)
PlainTexts == { <<>>, IndentMarker }

MarkupTexts == { UncheckedPrefix, CheckedPrefix \o IndentMarker }

\* what is typed into a line: todo syntax is typed into plain text lines
TypedTexts(line) == IF line.type = "text" THEN PlainTexts \cup MarkupTexts ELSE PlainTexts

InputTexts ==
  PlainTexts \cup MarkupTexts
    \cup { <<"a">>, IndentMarker \o UncheckedPrefix \o <<"a">> }

InitRawLines ==
  { <<>>,
    IndentMarker,
    UncheckedPrefix \o IndentMarker,
    IndentMarker \o CheckedPrefix }

DeepRawLines ==
  { Repeat(IndentMarker, MaxIndent + 1) \o UncheckedPrefix,
    Repeat(IndentMarker, MaxIndent + 2) \o CheckedPrefix \o <<"a">>,
    <<"a">> }

SeqsUpTo(S, n) == UNION { [1..k -> S] : k \in 1..n }

Contents == { JoinLines(rs) : rs \in SeqsUpTo(InitRawLines, MaxLines) }

DeepContents == { JoinLines(rs) : rs \in SeqsUpTo(DeepRawLines, MaxLines) }

(***************************************************************************)
(* Construction: useState(() => parseContent(content)).                    *)
(***************************************************************************)
InitFrom(cs) ==
  /\ content \in cs
  /\ lines = parseContent(content)
  /\ isInternalChange = FALSE
  /\ focusIndexRef = NoFocus
  /\ lastOp = [op |-> "Init", idx |-> 0]
  /\ directive = NoDirective
  /\ HookIdle
  /\ SourceIdle(<<>>)

Init == InitFrom(Contents)

(***************************************************************************)
(* commitChanges, followed by the host's updateContent and the content     *)
(* effect of the re-render: the effect runs only when the content prop     *)
(* changed, and it is what clears isInternalChange.                        *)
(***************************************************************************)
\* a commit that hands the host the serialization of the Document before
\* the change
commitChangesStale(newLines) ==
  /\ lines' = newLines
  /\ content' = serializeLines(lines)
  /\ isInternalChange' = (serializeLines(lines) = content)
  /\ updateContent(serializeLines(lines))
  /\ UNCHANGED sourceVars

commitChanges(newLines) ==
  /\ lines' = newLines
  /\ content' = serializeLines(newLines)
  /\ isInternalChange' = (serializeLines(newLines) = content)
  /\ updateContent(serializeLines(newLines))
  /\ UNCHANGED sourceVars

\* a handler that returns without committing
NoCommit == UNCHANGED <<lines, content, isInternalChange, hookVars, sourceVars>>

HandledDirecting(op, i, d) == lastOp' = [op |-> op, idx |-> i] /\ directive' = d

Handled(op, i) == HandledDirecting(op, i, NoDirective)

\* an input event reaches a rendered line once the effects of the last render ran
CanHandle(i) == i \in 1..Len(lines) /\ focusIndexRef = NoFocus

InsertAt(ls, k, e) == SubSeq(ls, 1, k - 1) \o <<e>> \o SubSeq(ls, k, Len(ls))

\* a removal that takes the last line whatever the index
RemoveLast(ls, k) == SubSeq(ls, 1, Len(ls) - 1)

RemoveAt(ls, k) == SubSeq(ls, 1, k - 1) \o SubSeq(ls, k + 1, Len(ls))

Min(a, b) == IF a < b THEN a ELSE b

Max(a, b) == IF a > b THEN a ELSE b

(***************************************************************************)
(* toggleCheck: the checkbox is rendered for todo lines only.              *)
(***************************************************************************)
\* a toggle that flips the line and propagates nothing
toggleCheckWithoutPropagation(ls, index) ==
  [ls EXCEPT ![index] = [@ EXCEPT !.checked = ~@]]

toggleCheck(ls, index) ==
  autoCheckParents([ls EXCEPT ![index] = [@ EXCEPT !.checked = ~@]], index)

\* a checkbox on every line, text lines included
ToggleAnyLine(i) ==
  /\ CanHandle(i)
  /\ commitChanges(toggleCheck(lines, i))
  /\ UNCHANGED focusIndexRef
  /\ Handled("Toggle", i)

Toggle(i) ==
  /\ CanHandle(i)
  /\ lines[i].type = "todo"
  /\ commitChanges(toggleCheck(lines, i))
  /\ UNCHANGED focusIndexRef
  /\ Handled("Toggle", i)

(***************************************************************************)
(* updateText: the change event of the line's textarea.                    *)
(***************************************************************************)
\* the coercion that keeps the typed prefix in the text of the new todo
updateTextKeepingPrefix(ls, index, text) ==
  IF ls[index].type = "text" /\ StartsWith(text, CheckedPrefix)
  THEN [ls EXCEPT ![index] = TodoLine(text, TRUE, 0)]
  ELSE IF ls[index].type = "text" /\ StartsWith(text, UncheckedPrefix)
  THEN [ls EXCEPT ![index] = TodoLine(text, FALSE, 0)]
  ELSE [ls EXCEPT ![index] = [@ EXCEPT !.text = text]]

\* the coercion applied to todo lines as well
updateTextCoercingTodo(ls, index, text) ==
  IF StartsWith(text, CheckedPrefix)
  THEN [ls EXCEPT ![index] = TodoLine(Slice(text, PrefixLen), TRUE, 0)]
  ELSE IF StartsWith(text, UncheckedPrefix)
  THEN [ls EXCEPT ![index] = TodoLine(Slice(text, PrefixLen), FALSE, 0)]
  ELSE [ls EXCEPT ![index] = [@ EXCEPT !.text = text]]

updateText(ls, index, text) ==
  IF ls[index].type = "text" /\ StartsWith(text, CheckedPrefix)
  THEN [ls EXCEPT ![index] = TodoLine(Slice(text, PrefixLen), TRUE, 0)]
  ELSE IF ls[index].type = "text" /\ StartsWith(text, UncheckedPrefix)
  THEN [ls EXCEPT ![index] = TodoLine(Slice(text, PrefixLen), FALSE, 0)]
  ELSE [ls EXCEPT ![index] = [@ EXCEPT !.text = text]]

EditText(i, text) ==
  /\ CanHandle(i)
  /\ text # lines[i].text
  /\ commitChanges(updateText(lines, i, text))
  /\ UNCHANGED focusIndexRef
  /\ Handled("EditText", i)

(***************************************************************************)
(* handleKeyDown, one action per key.                                      *)
(***************************************************************************)
\* the split that puts the new line before the line of the caret
splitLineBefore(ls, index) ==
  InsertAt(ls, index,
           IF ls[index].type = "todo"
           THEN TodoLine(<<>>, FALSE, ls[index].indent)
           ELSE TextLine(<<>>))

\* a split whose new todo starts at indent 0
splitLineFlat(ls, index) ==
  InsertAt(ls, index + 1,
           IF ls[index].type = "todo"
           THEN TodoLine(<<>>, FALSE, 0)
           ELSE TextLine(<<>>))

splitLine(ls, index) ==
  InsertAt(ls, index + 1,
           IF ls[index].type = "todo"
           THEN TodoLine(<<>>, FALSE, ls[index].indent)
           ELSE TextLine(<<>>))

\* Enter in a Document that has fewer than n lines
EnterUpTo(i, n) ==
  /\ CanHandle(i)
  /\ Len(lines) < n
  /\ commitChanges(splitLine(lines, i))
  /\ focusIndexRef' = i + 1
  /\ Handled("Enter", i)

Enter(i) == EnterUpTo(i, MaxLines)

\* an indent without the clamp
indentLineUnclamped(line) == [line EXCEPT !.indent = line.indent + 1]

\* an indent that clears the check mark
indentLineUnchecking(line) ==
  [line EXCEPT !.indent = Min(line.indent + 1, MaxIndent), !.checked = FALSE]

indentLine(line) == [line EXCEPT !.indent = Min(line.indent + 1, MaxIndent)]

\* a Ctrl+Tab that leaves text lines alone
ctrlTabIndentOnly(ls, index) ==
  IF ls[index].type = "text"
  THEN ls
  ELSE [ls EXCEPT ![index] = indentLine(ls[index])]

\* a Ctrl+Tab that runs the parent propagation after the change
ctrlTabPropagating(ls, index) ==
  autoCheckParents(IF ls[index].type = "text"
                   THEN [ls EXCEPT ![index] = TodoLine(ls[index].text, FALSE, 0)]
                   ELSE [ls EXCEPT ![index] = indentLine(ls[index])],
                   index)

ctrlTab(ls, index) ==
  IF ls[index].type = "text"
  THEN [ls EXCEPT ![index] = TodoLine(ls[index].text, FALSE, 0)]
  ELSE [ls EXCEPT ![index] = indentLine(ls[index])]

CtrlTab(i) ==
  /\ CanHandle(i)
  /\ commitChanges(ctrlTab(lines, i))
  /\ UNCHANGED focusIndexRef
  /\ Handled("CtrlTab", i)

\* a todo-to-text conversion that keeps the check mark
outdentLineKeepingChecked(line) ==
  IF line.indent = 0
  THEN [line EXCEPT !.type = "text"]
  ELSE [line EXCEPT !.indent = line.indent - 1]

\* an outdent that clears the check mark of the todo it moves
outdentLineUnchecking(line) ==
  IF line.indent = 0
  THEN TextLine(line.text)
  ELSE [line EXCEPT !.indent = line.indent - 1, !.checked = FALSE]

outdentLine(line) ==
  IF line.indent = 0
  THEN TextLine(line.text)
  ELSE [line EXCEPT !.indent = line.indent - 1]

ShiftTab(i) ==
  /\ CanHandle(i)
  /\ IF lines[i].type = "todo"
     THEN commitChanges([lines EXCEPT ![i] = outdentLine(lines[i])])
     ELSE NoCommit
  /\ UNCHANGED focusIndexRef
  /\ Handled("ShiftTab", i)

\* an insertion that keeps the selected characters
insertIndentSpacesKeepingSelection(text, start, end) ==
  Substring(text, 0, start) \o IndentMarker \o Slice(text, start)

insertIndentSpaces(text, start, end) ==
  Substring(text, 0, start) \o IndentMarker \o Slice(text, end)

\* plain Tab on a todo line: one level deeper
TabTodo(i) ==
  /\ CanHandle(i)
  /\ lines[i].type = "todo"
  /\ commitChanges([lines EXCEPT ![i] = indentLine(lines[i])])
  /\ UNCHANGED focusIndexRef
  /\ Handled("Tab", i)

\* plain Tab on a text line: two spaces replace the selection [start, end);
\* the text stays within n characters
TabTextUpTo(i, start, end, n) ==
  /\ CanHandle(i)
  /\ lines[i].type = "text"
  /\ start \in 0..Len(lines[i].text)
  /\ end \in start..Len(lines[i].text)
  /\ Len(insertIndentSpaces(lines[i].text, start, end)) <= n
  /\ commitChanges([lines EXCEPT
                      ![i] = [@ EXCEPT !.text = insertIndentSpaces(@, start, end)]])
  /\ UNCHANGED focusIndexRef
  /\ HandledDirecting("TabText", i, CaretAt(start + 2))

TabText(i, start, end) == TabTextUpTo(i, start, end, MaxTextLen)

\* a Backspace on a todo that always ends the todo
backspaceTodoToText(line) == TextLine(<<>>)

backspaceTodo(line) ==
  IF line.indent > 0
  THEN [line EXCEPT !.indent = line.indent - 1]
  ELSE TextLine(<<>>)

\* the Document after Backspace at the start of line index
deleteBackward(ls, index) ==
  IF index \notin 1..Len(ls) \/ ls[index].text # <<>>
  THEN ls
  ELSE IF ls[index].type = "todo"
  THEN [ls EXCEPT ![index] = IF ls[index].indent > 0
                             THEN TodoLine(<<>>, ls[index].checked, ls[index].indent - 1)
                             ELSE TextLine(<<>>)]
  ELSE IF Len(ls) > 1
  THEN RemoveAt(ls, index)
  ELSE ls

\* the focus request Backspace at the start of line index leaves, if any
deleteBackwardFocus(ls, index, focus) ==
  IF index \notin 1..Len(ls) \/ ls[index].text # <<>>
  THEN focus
  ELSE IF ls[index].type = "todo"
  THEN index
  ELSE IF Len(ls) > 1
  THEN Max(1, index - 1)
  ELSE focus

\* Backspace pressed n times at the start of line index
RECURSIVE DeleteTimes(_, _, _)
DeleteTimes(ls, index, n) ==
  IF n = 0 THEN ls ELSE DeleteTimes(deleteBackward(ls, index), index, n - 1)

\* a Backspace that removes an empty text line even when it is the only line
BackspaceRemovingSoleLine(i) ==
  /\ CanHandle(i)
  /\ IF lines[i].text # <<>>
     THEN NoCommit /\ UNCHANGED focusIndexRef
     ELSE IF lines[i].type = "todo"
     THEN /\ commitChanges([lines EXCEPT ![i] = backspaceTodo(lines[i])])
          /\ focusIndexRef' = i
     ELSE /\ commitChanges(RemoveAt(lines, i))
          /\ focusIndexRef' = Max(1, i - 1)
  /\ Handled("Backspace", i)

Backspace(i) ==
  /\ CanHandle(i)
  /\ IF lines[i].text # <<>>
     THEN NoCommit /\ UNCHANGED focusIndexRef
     ELSE IF lines[i].type = "todo"
     THEN /\ commitChanges([lines EXCEPT ![i] = backspaceTodo(lines[i])])
          /\ focusIndexRef' = i
     ELSE IF Len(lines) > 1
     THEN /\ commitChanges(RemoveAt(lines, i))
          /\ focusIndexRef' = Max(1, i - 1)
     ELSE NoCommit /\ UNCHANGED focusIndexRef
  /\ Handled("Backspace", i)

\* an ArrowUp that asks for the line before even on the first line
ArrowUpUnguarded(i) ==
  /\ CanHandle(i)
  /\ NoCommit
  /\ UNCHANGED focusIndexRef
  /\ HandledDirecting("ArrowUp", i, FocusOn(i - 1))

ArrowUp(i) ==
  /\ CanHandle(i)
  /\ NoCommit
  /\ UNCHANGED focusIndexRef
  /\ HandledDirecting("ArrowUp", i, IF i > 1 THEN FocusOn(i - 1) ELSE NoDirective)

ArrowDown(i) ==
  /\ CanHandle(i)
  /\ NoCommit
  /\ UNCHANGED focusIndexRef
  /\ HandledDirecting("ArrowDown", i,
                      IF i < Len(lines) THEN FocusOn(i + 1) ELSE NoDirective)

(***************************************************************************)
(* The focus effect after a render: the directive is consumed.             *)
(***************************************************************************)
\* a focus effect that leaves the request in place
FocusEffectKeeping ==
  /\ focusIndexRef # NoFocus
  /\ focusIndexRef' = focusIndexRef
  /\ lastOp' = [op |-> "FocusEffect", idx |-> focusIndexRef]
  /\ directive' = FocusOn(focusIndexRef)
  /\ UNCHANGED <<lines, content, isInternalChange, hookVars, sourceVars>>

FocusEffect ==
  /\ focusIndexRef # NoFocus
  /\ focusIndexRef' = NoFocus
  /\ lastOp' = [op |-> "FocusEffect", idx |-> focusIndexRef]
  /\ directive' = FocusOn(focusIndexRef)
  /\ UNCHANGED <<lines, content, isInternalChange, hookVars, sourceVars>>

(***************************************************************************)
(* The content effect on a change of the content prop that did not come    *)
(* from the editor (load, reload after merge).                             *)
(***************************************************************************)
ContentSync(c) ==
  /\ focusIndexRef = NoFocus
  /\ c # content
  /\ content' = c
  /\ lines' = IF ~isInternalChange THEN parseContent(c) ELSE lines
  /\ isInternalChange' = FALSE
  /\ UNCHANGED <<focusIndexRef, hookVars, sourceVars>>
  /\ lastOp' = [op |-> "ContentSync", idx |-> 0]
  /\ directive' = NoDirective

(***************************************************************************)
(* 'Add Todo Item' of the title bar menu: the host appends an unchecked    *)
(* todo to the content of the note and passes it to updateContent; the     *)
(* editor meets the new content prop in its content effect.                *)
(***************************************************************************)
AddTodoLine ==
  /\ mounted
  /\ focusIndexRef = NoFocus
  /\ Len(SplitLines(content)) < MaxSyncLines
  /\ LET newContent == IF content # <<>>
                       THEN content \o <<NL>> \o UncheckedPrefix
                       ELSE UncheckedPrefix
     IN /\ content' = newContent
        /\ lines' = IF ~isInternalChange THEN parseContent(newContent) ELSE lines
        /\ updateContent(newContent)
  /\ isInternalChange' = FALSE
  /\ lastOp' = [op |-> "AddTodo", idx |-> 0]
  /\ directive' = NoDirective
  /\ UNCHANGED <<focusIndexRef, sourceVars>>

(***************************************************************************)
(* A handler called with an index that names no line.  toggleCheck,        *)
(* updateText and every committing branch of handleKeyDown read a property *)
(* of lines[index] before they change anything, and the read of a property *)
(* of undefined throws a TypeError: nothing is committed.  The code has no *)
(* index check of its own.                                                 *)
(***************************************************************************)
TypeError(i) ==
  /\ lastOp' = [op |-> "TypeError", idx |-> i]
  /\ directive' = NoDirective
  /\ UNCHANGED <<lines, content, isInternalChange, focusIndexRef, hookVars,
                 sourceVars>>

HandlerOutOfRange(i) ==
  /\ i \notin DOMAIN lines
  /\ focusIndexRef = NoFocus
  /\ TypeError(i)

(***************************************************************************)
(* autoCheckParents called with such an index: past the last line the read *)
(* of currentLine.type throws; before the first line the loop is not       *)
(* entered and the copy of the lines is returned.                          *)
(***************************************************************************)
PropagateOutOfRange(i) ==
  /\ i \notin DOMAIN lines
  /\ focusIndexRef = NoFocus
  /\ IF i > Len(lines)
       THEN TypeError(i)
       ELSE /\ lines' = autoCheckParents(lines, i)
            /\ lastOp' = [op |-> "Propagate", idx |-> i]
            /\ directive' = NoDirective
            /\ UNCHANGED <<content, isInternalChange, focusIndexRef, hookVars,
                           sourceVars>>

(***************************************************************************)
(* The debounce timer of updateContent fires: the write goes out without   *)
(* being awaited and carries the content of the closure; the timer ref     *)
(* keeps the id of the fired timer.                                        *)
(***************************************************************************)
TimerFire ==
  \E t \in timers :
    /\ Len(store) < MaxWrites
    /\ store' = Append(store, t.content)
    /\ pendingContentRef' = Null
    /\ timers' = timers \ {t}
    /\ lastOp' = [op |-> "TimerFire", idx |-> t.id]
    /\ directive' = NoDirective
    /\ UNCHANGED <<lines, content, isInternalChange, focusIndexRef,
                   saveTimeoutRef, saveNowCalls, lastUpdate, mounted,
                   sourceVars>>

(***************************************************************************)
(* saveNow up to its await: the timer is cleared and, when a content is    *)
(* pending, written.  With nothing pending the call is over at once.  A    *)
(* call that waits remembers the content updateContent had got last.       *)
(***************************************************************************)
saveNow ==
  /\ mounted
  /\ timers' = clearTimeout(timers, saveTimeoutRef)
  /\ saveTimeoutRef' = NoTimer
  /\ IF pendingContentRef # Null
       THEN /\ Len(store) < MaxWrites
            /\ store' = Append(store, pendingContentRef)
            /\ saveNowCalls' = Append(saveNowCalls, [latest |-> lastUpdate])
            /\ lastOp' = [op |-> "SaveNow", idx |-> 0]
            /\ directive' = NoDirective
       ELSE /\ UNCHANGED <<store, saveNowCalls>>
            /\ lastOp' = [op |-> "SaveNowDone", idx |-> 0]
            /\ directive' = NoDirective
  /\ UNCHANGED <<lines, content, isInternalChange, focusIndexRef,
                 pendingContentRef, lastUpdate, mounted, sourceVars>>

(***************************************************************************)
(* saveNow after its await: the write is done and the pending content is   *)
(* dropped, whatever it is by now.                                         *)
(***************************************************************************)
SaveNowResume ==
  /\ saveNowCalls # <<>>
  /\ saveNowCalls' = Tail(saveNowCalls)
  /\ pendingContentRef' = Null
  /\ lastOp' = [op |-> "SaveNowDone", idx |-> 1]
  /\ directive' = NoDirective
  /\ UNCHANGED <<lines, content, isInternalChange, focusIndexRef, store,
                 saveTimeoutRef, timers, lastUpdate, mounted,
                 sourceVars>>

(***************************************************************************)
(* The cleanup of the useNote effect: the timer is cleared, nothing is     *)
(* written and the refs are left as they are.                              *)
(***************************************************************************)
Unmount ==
  /\ mounted
  /\ mounted' = FALSE
  /\ timers' = clearTimeout(timers, saveTimeoutRef)
  /\ lastOp' = [op |-> "Unmount", idx |-> 0]
  /\ directive' = NoDirective
  /\ UNCHANGED <<lines, content, isInternalChange, focusIndexRef, store,
                 pendingContentRef, saveTimeoutRef, saveNowCalls, lastUpdate,
                 sourceVars>>

(***************************************************************************)
(* The other note of a merge.  It may be open in a window of its own,      *)
(* whose useNote debounces its edits the same way; sourceStore is Null     *)
(* once the note is deleted.                                               *)
(***************************************************************************)
SourceUpdateContent(c) ==
  /\ sourceStore # Null
  /\ c # (IF sourcePending # Null THEN sourcePending ELSE sourceStore)
  /\ sourcePending' = c
  /\ lastOp' = [op |-> "SourceUpdateContent", idx |-> 0]
  /\ directive' = NoDirective
  /\ UNCHANGED <<lines, content, isInternalChange, focusIndexRef, hookVars,
                 sourceStore, notes, merge>>

SourceTimerFire ==
  /\ sourceStore # Null
  /\ sourcePending # Null
  /\ sourceStore' = sourcePending
  /\ sourcePending' = Null
  /\ lastOp' = [op |-> "SourceTimerFire", idx |-> 0]
  /\ directive' = NoDirective
  /\ UNCHANGED <<lines, content, isInternalChange, focusIndexRef, hookVars,
                 notes, merge>>

\* the menu opens: getAllNotes().then(setNotes)
ShowMenu ==
  /\ mounted
  /\ sourceStore # Null
  /\ notes' = sourceStore
  /\ lastOp' = [op |-> "ShowMenu", idx |-> 0]
  /\ directive' = NoDirective
  /\ UNCHANGED <<lines, content, isInternalChange, focusIndexRef, hookVars,
                 sourceStore, sourcePending, merge>>

Separator == <<NL, NL, "-", "-", "-", NL, NL>>

mergeContentAlwaysSeparated(liveContent, sourceContent) ==
  liveContent \o Separator \o sourceContent

mergeContent(liveContent, sourceContent) ==
  liveContent
    \o (IF liveContent # <<>> /\ sourceContent # <<>> THEN Separator ELSE <<>>)
    \o sourceContent

\* the flush of the note of this window: what its updateNote calls write
flushAndGetContent ==
  IF pendingContentRef # Null THEN <<pendingContentRef>> ELSE <<>>

(***************************************************************************)
(* handleMergeNote on the menu entry of the other note: the note of this   *)
(* window is flushed, the merged content is written, the other note is     *)
(* deleted and the window reloads, which mounts the note afresh from the   *)
(* store.                                                                  *)
(***************************************************************************)
MergeNote ==
  /\ mounted
  /\ focusIndexRef = NoFocus
  /\ notes # Null
  /\ sourceStore # Null
  /\ LET mergedContent == mergeContent(content, notes)
     IN /\ Len(store) + Len(flushAndGetContent) < MaxWrites
        /\ store' = store \o flushAndGetContent \o <<mergedContent>>
        /\ content' = mergedContent
        /\ lines' = parseContent(mergedContent)
  /\ sourceStore' = Null
  /\ notes' = Null
  /\ isInternalChange' = FALSE
  /\ pendingContentRef' = Null
  /\ saveTimeoutRef' = NoTimer
  /\ timers' = {}
  /\ saveNowCalls' = <<>>
  /\ lastOp' = [op |-> "MergeNote", idx |-> 0]
  /\ directive' = NoDirective
  /\ UNCHANGED <<focusIndexRef, lastUpdate, mounted, sourcePending, merge>>

(***************************************************************************)
(* handleMergeNote await by await.  Between its steps the editor of this   *)
(* window takes input and the debounce timer fires.  An await whose        *)
(* promise is rejected ends the handler there: it has no try/catch.        *)
(***************************************************************************)
MergeStep(op, pc, merged) ==
  /\ merge' = [pc |-> pc, merged |-> merged]
  /\ lastOp' = [op |-> op, idx |-> 0]
  /\ directive' = NoDirective

\* await onGetLiveContent(), then the merged content is put together
MergeBegin ==
  /\ mounted
  /\ merge.pc = "idle"
  /\ notes # Null
  /\ sourceStore # Null
  /\ Len(store) + Len(flushAndGetContent) <= MaxWrites
  /\ store' = store \o flushAndGetContent
  /\ pendingContentRef' = Null
  /\ timers' = clearTimeout(timers, saveTimeoutRef)
  /\ saveTimeoutRef' = NoTimer
  /\ MergeStep("MergeBegin", "flushed", mergeContent(content, notes))
  /\ UNCHANGED <<lines, content, isInternalChange, focusIndexRef, saveNowCalls,
                 lastUpdate, mounted, sourceStore, sourcePending, notes>>

\* the flush is rejected
MergeBeginFail ==
  /\ mounted
  /\ merge.pc = "idle"
  /\ notes # Null
  /\ sourceStore # Null
  /\ MergeStep("MergeBeginFail", "failed", Null)
  /\ UNCHANGED <<lines, content, isInternalChange, focusIndexRef, hookVars,
                 sourceStore, sourcePending, notes>>

\* await updateNote(noteId, { content: mergedContent, ... })
MergeWrite ==
  /\ merge.pc = "flushed"
  /\ Len(store) < MaxWrites
  /\ store' = Append(store, merge.merged)
  /\ MergeStep("MergeWrite", "written", merge.merged)
  /\ UNCHANGED <<lines, content, isInternalChange, focusIndexRef,
                 pendingContentRef, saveTimeoutRef, timers, saveNowCalls,
                 lastUpdate, mounted, sourceStore, sourcePending, notes>>

\* the write of the merged content is rejected
MergeWriteFail ==
  /\ merge.pc = "flushed"
  /\ MergeStep("MergeWriteFail", "failed", merge.merged)
  /\ UNCHANGED <<lines, content, isInternalChange, focusIndexRef, hookVars,
                 sourceStore, sourcePending, notes>>

\* a merge that deletes the other note also after a rejected await
MergeDeleteAfterFailure ==
  /\ merge.pc \in {"written", "failed"}
  /\ sourceStore' = Null
  /\ MergeStep("MergeDelete", "deleted", merge.merged)
  /\ UNCHANGED <<lines, content, isInternalChange, focusIndexRef, hookVars,
                 sourcePending, notes>>

\* await deleteNote(sourceNote.id)
MergeDelete ==
  /\ merge.pc = "written"
  /\ sourceStore' = Null
  /\ MergeStep("MergeDelete", "deleted", merge.merged)
  /\ UNCHANGED <<lines, content, isInternalChange, focusIndexRef, hookVars,
                 sourcePending, notes>>

\* getAllNotes, setNotes, window.location.reload(): the window mounts the
\* note afresh from the store; its timers go with the page
MergeReload ==
  /\ merge.pc = "deleted"
  /\ focusIndexRef = NoFocus
  /\ content' = store[Len(store)]
  /\ lines' = parseContent(store[Len(store)])
  /\ isInternalChange' = FALSE
  /\ pendingContentRef' = Null
  /\ saveTimeoutRef' = NoTimer
  /\ timers' = {}
  /\ saveNowCalls' = <<>>
  /\ lastUpdate' = Null
  /\ notes' = Null
  /\ MergeStep("MergeReload", "idle", Null)
  /\ UNCHANGED <<focusIndexRef, store, mounted, sourceStore, sourcePending>>

(***************************************************************************)
(* Specifications.                                                         *)
(***************************************************************************)
LineIndices == 1..(MaxLines + 1)

\* the editor: todo syntax is typed into text lines, the literal-indent Tab
\* replaces the whole text of its line
Next ==
  \/ \E i \in LineIndices : Toggle(i)
  \/ \E i \in (LineIndices \cap DOMAIN lines) : \E t \in TypedTexts(lines[i]) : EditText(i, t)
  \/ \E i \in LineIndices : Enter(i)
  \/ \E i \in LineIndices : CtrlTab(i)
  \/ \E i \in LineIndices : ShiftTab(i)
  \/ \E i \in LineIndices : TabTodo(i)
  \/ \E i \in (LineIndices \cap DOMAIN lines) : TabText(i, 0, Len(lines[i].text))
  \/ \E i \in LineIndices : Backspace(i)
  \/ \E i \in LineIndices : ArrowUp(i)
  \/ \E i \in LineIndices : ArrowDown(i)
  \/ FocusEffect

Spec == Init /\ [][Next]_vars

\* the editor with any input text in any line and any selection
NextMarkup ==
  \/ \E i \in LineIndices : Toggle(i)
  \/ \E i \in LineIndices, t \in InputTexts : EditText(i, t)
  \/ \E i \in LineIndices : Enter(i)
  \/ \E i \in LineIndices : CtrlTab(i)
  \/ \E i \in LineIndices : ShiftTab(i)
  \/ \E i \in LineIndices : TabTodo(i)
  \/ \E i \in (LineIndices \cap DOMAIN lines) :
        \E s \in 0..Len(lines[i].text), e \in 0..Len(lines[i].text) : TabText(i, s, e)
  \/ \E i \in LineIndices : Backspace(i)
  \/ \E i \in LineIndices : ArrowUp(i)
  \/ \E i \in LineIndices : ArrowDown(i)
  \/ FocusEffect

SpecMarkup == Init /\ [][NextMarkup]_vars

\* the text edits alone: a plain text, an unchecked and a checked todo typed
\* into any line, the literal-indent Tab replacing the whole text of its line
CoerceTexts == { <<"a">>, UncheckedPrefix, CheckedPrefix \o <<"a">> }

NextCoerce ==
  \/ \E i \in LineIndices, t \in CoerceTexts : EditText(i, t)
  \/ \E i \in (LineIndices \cap DOMAIN lines) : TabText(i, 0, Len(lines[i].text))

\* the indent keys alone
NextKeys ==
  \/ \E i \in LineIndices : CtrlTab(i)
  \/ \E i \in LineIndices : ShiftTab(i)
  \/ \E i \in LineIndices : TabTodo(i)

SpecKeys == Init /\ [][NextKeys]_vars

\* the checkbox and the arrow keys alone
NextPointer ==
  \/ \E i \in LineIndices : Toggle(i)
  \/ \E i \in LineIndices : ArrowUp(i)
  \/ \E i \in LineIndices : ArrowDown(i)

SpecPointer == Init /\ [][NextPointer]_vars

SpecCoerce == Init /\ [][NextCoerce]_vars

\* the editor loaded with content indented deeper than MaxIndent
SpecDeep == InitFrom(DeepContents) /\ [][Next]_vars

(***************************************************************************)
(* The checklist specification: the editor loaded with any checklist of up *)
(* to MaxChecklistLines lines, its checkboxes clicked in any order.        *)
(***************************************************************************)
ChecklistRawLines ==
  { Repeat(IndentMarker, n) \o p : n \in 0..MaxIndent, p \in {CheckedPrefix, UncheckedPrefix} }
    \cup { <<"a">> }

ChecklistContents ==
  { JoinLines(rs) : rs \in SeqsUpTo(ChecklistRawLines, MaxChecklistLines) }

NextChecklist == \E i \in 1..MaxChecklistLines : Toggle(i)

SpecChecklist == InitFrom(ChecklistContents) /\ [][NextChecklist]_vars

(***************************************************************************)
(* The propagation specification: the editor loaded with any checklist of  *)
(* up to MaxPropagateLines lines, text lines among them, its checkboxes    *)
(* clicked in any order.                                                   *)
(***************************************************************************)
PropagateContents ==
  { JoinLines(rs) : rs \in SeqsUpTo(ChecklistRawLines, MaxPropagateLines) }

NextPropagate == \E i \in 1..MaxPropagateLines : Toggle(i)

SpecPropagate == InitFrom(PropagateContents) /\ [][NextPropagate]_vars

(***************************************************************************)
(* The codec specification: the editor loaded with, and then re-synced to, *)
(* any content of up to MaxCodecLines raw lines.                           *)
(***************************************************************************)
CodecPads ==
  { <<>>, <<" ">>, IndentMarker, <<" ", " ", " ">>,
    Repeat(IndentMarker, 2), Repeat(IndentMarker, MaxIndent + 1) }

CodecBodies ==
  { <<>>,
    <<"a">>,
    UncheckedPrefix,
    CheckedPrefix \o <<"a">>,
    <<"-", " ", "[", "x", "]">>,
    <<"-", "[", " ", "]", " ">>,
    UncheckedPrefix \o CheckedPrefix }

CodecRawLines == { pad \o body : pad \in CodecPads, body \in CodecBodies }

CodecContents == { JoinLines(rs) : rs \in SeqsUpTo(CodecRawLines, MaxCodecLines) }

NextCodec == \E c \in CodecRawLines : ContentSync(c)

SpecCodec == InitFrom(CodecContents) /\ [][NextCodec]_vars

(***************************************************************************)
(* The handlers called with any index, in range or not.                    *)
(***************************************************************************)
ContractIndices == 0..(MaxLines + 1)

NextContract ==
  \/ \E i \in LineIndices : Enter(i)
  \/ \E i \in LineIndices : CtrlTab(i)
  \/ FocusEffect
  \/ \E i \in ContractIndices : HandlerOutOfRange(i)
  \/ \E i \in ContractIndices : PropagateOutOfRange(i)

SpecContract == Init /\ [][NextContract]_vars

(***************************************************************************)
(* The editor with texts as a paste into the textarea of a line delivers   *)
(* them: the value of a textarea may hold line breaks.                     *)
(***************************************************************************)
PasteTexts == { <<>>, <<"a">>, <<"a", NL, "b">>, UncheckedPrefix \o <<NL>> }

NextPaste ==
  \/ \E i \in LineIndices, t \in PasteTexts : EditText(i, t)
  \/ \E i \in LineIndices : Enter(i)
  \/ FocusEffect

SpecPaste == Init /\ [][NextPaste]_vars

(***************************************************************************)
(* Enter on lines of every kind and indent, in Documents long enough to    *)
(* have lines after the one that is split.                                 *)
(***************************************************************************)
NextSplit ==
  \/ \E i \in 1..MaxSplitLines : EnterUpTo(i, MaxSplitLines)
  \/ \E i \in 1..MaxSplitLines : CtrlTab(i)
  \/ FocusEffect

SpecSplit == Init /\ [][NextSplit]_vars

(***************************************************************************)
(* The deletion specification: the editor loaded with any document of up   *)
(* to MaxDeleteLines lines, empty and non-empty, Backspace pressed at the  *)
(* start of any line.                                                      *)
(***************************************************************************)
DeleteRawLines ==
  { <<>>,
    <<"a">>,
    UncheckedPrefix,
    Repeat(IndentMarker, 2) \o CheckedPrefix,
    UncheckedPrefix \o <<"a">> }

DeleteContents == { JoinLines(rs) : rs \in SeqsUpTo(DeleteRawLines, MaxDeleteLines) }

NextDelete ==
  \/ \E i \in 1..MaxDeleteLines : Backspace(i)
  \/ FocusEffect

SpecDelete == InitFrom(DeleteContents) /\ [][NextDelete]_vars

(***************************************************************************)
(* The literal-indent specification: the editor loaded with a text line,   *)
(* alone or next to a todo line, plain Tab pressed in a text line with any *)
(* selection.                                                              *)
(***************************************************************************)
SpacedContents ==
  { JoinLines(rs) : rs \in { <<<<"a", "b">>>>,
                             <<<<"a", "b">>, UncheckedPrefix>>,
                             <<CheckedPrefix \o <<"a">>, <<>>>>,
                             <<<<"a">>, <<"b">>>> } }

NextSpaced ==
  \E i \in DOMAIN lines :
     \E s \in 0..Len(lines[i].text), e \in 0..Len(lines[i].text) :
        TabTextUpTo(i, s, e, MaxSpacedLen)

SpecSpaced == InitFrom(SpacedContents) /\ [][NextSpaced]_vars

(***************************************************************************)
(* The content-sync specification: the editor loaded with a note, its      *)
(* indent keys and checkboxes used, and the content of the note changed    *)
(* from outside the editor: a reload and 'Add Todo Item'.                  *)
(***************************************************************************)
SyncContents ==
  { <<>>,
    <<"a">>,
    Repeat(IndentMarker, MaxIndent) \o UncheckedPrefix,
    UncheckedPrefix \o <<NL>> \o IndentMarker \o CheckedPrefix }

NextSync ==
  \/ \E i \in 1..MaxSyncLines : Toggle(i)
  \/ \E i \in 1..MaxSyncLines : TabTodo(i)
  \/ \E i \in 1..MaxSyncLines : ShiftTab(i)
  \/ \E c \in SyncContents : ContentSync(c)
  \/ AddTodoLine

SpecSync == InitFrom(SyncContents) /\ [][NextSync]_vars

(***************************************************************************)
(* The frame specification: the editor loaded with documents whose todo    *)
(* lines disagree with their children, every structural key pressed and    *)
(* the text of any line edited.  No checkbox is clicked.                   *)
(***************************************************************************)
FrameRawLines ==
  { <<>>,
    UncheckedPrefix,
    CheckedPrefix,
    IndentMarker \o CheckedPrefix }

FrameContents == { JoinLines(rs) : rs \in SeqsUpTo(FrameRawLines, MaxFrameLines) }

FrameTexts == { <<>> }

NextFrame ==
  \/ \E i \in 1..MaxFrameLines : EnterUpTo(i, MaxFrameLines)
  \/ \E i \in 1..MaxFrameLines, t \in FrameTexts : EditText(i, t)
  \/ \E i \in 1..MaxFrameLines : CtrlTab(i)
  \/ \E i \in 1..MaxFrameLines : TabTodo(i)
  \/ \E i \in 1..MaxFrameLines : ShiftTab(i)
  \/ \E i \in 1..MaxFrameLines : Backspace(i)
  \/ \E i \in DOMAIN lines : TabTextUpTo(i, 0, Len(lines[i].text), Len(IndentMarker))
  \/ FocusEffect

SpecFrame == InitFrom(FrameContents) /\ [][NextFrame]_vars

(***************************************************************************)
(* The split-and-delete specification: the editor loaded with non-empty    *)
(* text and todo lines, Enter and Backspace pressed in any line.  Every    *)
(* empty line of a reachable Document was made by Enter.                   *)
(***************************************************************************)
RestoreRawLines ==
  { <<"a">> } \cup { Repeat(IndentMarker, n) \o CheckedPrefix \o <<"a">> : n \in 0..MaxIndent }

RestoreContents ==
  { JoinLines(rs) : rs \in SeqsUpTo(RestoreRawLines, MaxRestoreLines - 1) }

NextRestore ==
  \/ \E i \in 1..MaxRestoreLines : EnterUpTo(i, MaxRestoreLines)
  \/ \E i \in 1..MaxRestoreLines : Backspace(i)
  \/ FocusEffect

SpecRestore == InitFrom(RestoreContents) /\ [][NextRestore]_vars

(***************************************************************************)
(* The note of one window with its debounced save: the user retypes the    *)
(* only line, the timer fires, saveNow is called (close) and the window    *)
(* goes away.  The editor takes input only while it is mounted.            *)
(***************************************************************************)
SaveContents == { <<>>, <<"a">>, <<"b">> }

SaveTexts == { <<>>, <<"a">>, UncheckedPrefix }

SaveEdit == mounted /\ \E t \in SaveTexts : EditText(1, t)

NextSave ==
  \/ SaveEdit
  \/ TimerFire
  \/ saveNow
  \/ SaveNowResume
  \/ Unmount

SpecSave == InitFrom(SaveContents) /\ [][NextSave]_vars

(***************************************************************************)
(* Two notes: the one of this window, edited and saved by its timer, and   *)
(* another one that is edited in its own window and merged into this one   *)
(* from the menu.                                                          *)
(***************************************************************************)
InitMerge ==
  /\ content \in SaveContents
  /\ lines = parseContent(content)
  /\ isInternalChange = FALSE
  /\ focusIndexRef = NoFocus
  /\ lastOp = [op |-> "Init", idx |-> 0]
  /\ directive = NoDirective
  /\ HookIdle
  /\ \E c \in SaveContents : SourceIdle(c)

NextMerge ==
  \/ SaveEdit
  \/ TimerFire
  \/ \E c \in SaveContents : SourceUpdateContent(c)
  \/ SourceTimerFire
  \/ ShowMenu
  \/ MergeNote

SpecMerge == InitMerge /\ [][NextMerge]_vars

\* the merge taken await by await, with the edits and timer firings of this
\* window in between
NextMergeSteps ==
  \/ SaveEdit
  \/ TimerFire
  \/ ShowMenu
  \/ MergeBegin
  \/ MergeBeginFail
  \/ MergeWrite
  \/ MergeWriteFail
  \/ MergeDelete
  \/ MergeReload

SpecMergeSteps == InitMerge /\ [][NextMergeSteps]_vars

(***************************************************************************)
(* Properties.                                                             *)
(***************************************************************************)
IsTodo(line) == line.type = "todo"

IsText(line) == line.type = "text"

\* the data model of a Document: at least one line, bounded todo indents,
\* text lines without indent or check mark
DocumentOK(ls) ==
  /\ Len(ls) >= 1
  /\ \A k \in 1..Len(ls) :
       /\ IsTodo(ls[k]) => ls[k].indent \in 0..MaxIndent
       /\ IsText(ls[k]) => ls[k].indent = 0 /\ ls[k].checked = FALSE

\* C1: every Document within the data model (todo indents in 0..3, text lines
\* with indent 0 and unchecked) is reproduced line for line by serializing it
\* and parsing the result.
C1_DocumentRoundTrip ==
  DocumentOK(lines) => parseContent(serializeLines(lines)) = lines

\* C2: in every state the editor reaches, parsing the text it handed to the
\* host (the serialization of its Document) reproduces the Document exactly.
C2_ReloadReproducesDocument ==
  /\ content = serializeLines(lines)
  /\ parseContent(content) = lines

\* C3: serializing the parse of a content gives the content back, for every
\* content the editor is loaded with or synced to, outputs of serializeLines
\* and contents with todo-like fragments alike.
C3_TextRoundTrip == serializeLines(parseContent(content)) = content

\* C3 witness: a two-line content with a nested todo and a text line that
\* starts with indent markers has been parsed.
C3_Witness ==
  /\ lines = parseContent(content)
  /\ \E j, k \in 1..Len(lines) :
       /\ IsTodo(lines[j]) /\ lines[j].indent >= 2 /\ lines[j].text # <<>>
       /\ IsText(lines[k]) /\ StartsWith(lines[k].text, IndentMarker)
            /\ Len(lines[k].text) > MarkerLen

\* C4: the Document always has at least one line; Backspace on an empty text
\* line that is the only line leaves the Document unchanged.
C4_NeverEmpty ==
  [][/\ Len(lines) >= 1
     /\ Len(lines') >= 1
     /\ (lastOp'.op = "Backspace" /\ lines = <<TextLine(<<>>)>>) => lines' = lines]_vars

\* C4 witness: Backspace was handled on a sole empty text line without a commit
\* (a committing Backspace leaves a focus directive).
C4_Witness ==
  /\ lastOp = [op |-> "Backspace", idx |-> 1]
  /\ focusIndexRef = NoFocus
  /\ lines = <<TextLine(<<>>)>>

IndentsBounded(ls) ==
  \A k \in 1..Len(ls) : IsTodo(ls[k]) => ls[k].indent \in 0..MaxIndent

\* C5: loaded with a Document whose todo indents lie in 0..3, the editor keeps
\* every todo indent in 0..3 through every action.
C5_IndentBound == IndentsBounded(lines)

\* C5 witness: an indent key was handled on a todo already at the deepest
\* level (the commit left the content as it was) and on one at level 0.
C5_Witness ==
  /\ lastOp.op \in {"CtrlTab", "Tab"}
  /\ isInternalChange
  /\ lines[lastOp.idx].indent = MaxIndent
  /\ \E k \in 1..Len(lines) : IsTodo(lines[k]) /\ lines[k].indent = 0

EditOps == {"Enter", "Toggle", "EditText", "CtrlTab", "Tab", "ShiftTab", "Backspace"}

\* the lines of the new Document that the handled event created or modified
TouchedLines(old, new, op, i) ==
  IF op = "Enter" THEN {i + 1}
  ELSE {j \in 1..Len(new) : j > Len(old) \/ new[j] # old[j]}

\* C6: when a parsed todo lies deeper than level 3, an action applied to that
\* line leaves no created or modified todo deeper than level 3.
C6_DeepIndentReclamped ==
  [][(/\ lastOp'.op \in EditOps
      /\ IsTodo(lines[lastOp'.idx])
      /\ lines[lastOp'.idx].indent > MaxIndent)
       => \A j \in TouchedLines(lines, lines', lastOp'.op, lastOp'.idx) :
            IsTodo(lines'[j]) => lines'[j].indent <= MaxIndent]_vars

\* C7: every text line has indent 0 and is unchecked.
C7_TextLinesPlain ==
  \A k \in 1..Len(lines) : IsText(lines[k]) => lines[k].indent = 0 /\ lines[k].checked = FALSE

\* C7 witness: Shift+Tab has converted a todo of level 0 to a text line next to
\* a checked todo.
C7_Witness ==
  /\ lastOp.op = "ShiftTab"
  /\ ~isInternalChange
  /\ IsText(lines[lastOp.idx])
  /\ lines[lastOp.idx].text # <<>>
  /\ \E k \in 1..Len(lines) : IsTodo(lines[k]) /\ lines[k].checked

(***************************************************************************)
(* The nesting of a checklist, stated on the Document as a whole.          *)
(***************************************************************************)
\* the nearest preceding todo of strictly smaller indent, reached through todo
\* lines only; 0 if there is none
ParentOf(ls, i) ==
  LET cands == { k \in 1..(i - 1) :
                   /\ IsTodo(ls[k]) /\ ls[k].indent < ls[i].indent
                   /\ \A m \in (k + 1)..(i - 1) :
                        IsTodo(ls[m]) /\ ls[m].indent >= ls[i].indent }
  IN IF IsTodo(ls[i]) /\ cands # {} THEN CHOOSE k \in cands : TRUE ELSE 0

\* the todo lines one level below p inside p's block
DirectChildren(ls, p) ==
  { j \in (p + 1)..Len(ls) :
      /\ ls[j].indent = ls[p].indent + 1
      /\ \A m \in (p + 1)..j : IsTodo(ls[m]) /\ ls[m].indent > ls[p].indent }

\* every line of p's block
Descendants(ls, p) ==
  { j \in (p + 1)..Len(ls) :
      \A m \in (p + 1)..j : IsTodo(ls[m]) /\ ls[m].indent > ls[p].indent }

RECURSIVE Ancestors(_, _)
Ancestors(ls, i) ==
  IF ParentOf(ls, i) = 0 THEN {} ELSE {ParentOf(ls, i)} \cup Ancestors(ls, ParentOf(ls, i))

AllChecked(ls, S) == \A j \in S : ls[j].checked

\* the Document handed to autoCheckParents by a toggle of line i
Flipped(ls, i) == [ls EXCEPT ![i] = [@ EXCEPT !.checked = ~@]]

\* C8: after a toggle of a nested todo, its parent is checked exactly when all
\* of the parent's direct children are checked; a parent without a direct
\* child keeps its state.
C8_ParentFollowsChildren ==
  [][(lastOp'.op = "Toggle" /\ ParentOf(lines, lastOp'.idx) # 0)
       => LET p == ParentOf(lines, lastOp'.idx) IN
          IF DirectChildren(lines', p) # {}
          THEN lines'[p].checked = AllChecked(lines', DirectChildren(lines', p))
          ELSE lines'[p].checked = lines[p].checked]_vars

\* C8 witness: a toggle has checked the last unchecked of at least two direct
\* children and the parent is checked.
C8_Witness ==
  /\ lastOp.op = "Toggle"
  /\ lines[lastOp.idx].checked
  /\ ParentOf(lines, lastOp.idx) # 0
  /\ lastOp.idx \in DirectChildren(lines, ParentOf(lines, lastOp.idx))
  /\ Cardinality(DirectChildren(lines, ParentOf(lines, lastOp.idx))) >= 2
  /\ lines[ParentOf(lines, lastOp.idx)].checked

\* every ancestor of i has the chain member below it as a direct child and all
\* its other direct children checked
ChainReady(ls, i) ==
  \A c \in {i} \cup Ancestors(ls, i) :
    ParentOf(ls, c) # 0 =>
      /\ ls[c].indent = ls[ParentOf(ls, c)].indent + 1
      /\ AllChecked(ls, DirectChildren(ls, ParentOf(ls, c)) \ {c})

\* C9: in a nesting of three or more levels where every other direct child
\* of each ancestor is checked, one toggle that checks the last unchecked
\* child checks every ancestor on the chain.
C9_Cascade ==
  [][(/\ lastOp'.op = "Toggle"
      /\ ~lines[lastOp'.idx].checked
      /\ Cardinality(Ancestors(lines, lastOp'.idx)) >= 2
      /\ ChainReady(lines, lastOp'.idx))
       => AllChecked(lines', Ancestors(lines, lastOp'.idx))]_vars

\* C9 witness: a toggle has checked a todo with two ancestors, one of which
\* has another direct child, and every ancestor is checked.
C9_Witness ==
  /\ lastOp.op = "Toggle"
  /\ lines[lastOp.idx].checked
  /\ Cardinality(Ancestors(lines, lastOp.idx)) >= 2
  /\ ChainReady(lines, lastOp.idx)
  /\ \E a \in Ancestors(lines, lastOp.idx) : Cardinality(DirectChildren(lines, a)) >= 2
  /\ AllChecked(lines, Ancestors(lines, lastOp.idx))

\* only the checked field of new[j] differs from old[j], if anything
SameButChecked(old, new, j) == new[j] = [old[j] EXCEPT !.checked = new[j].checked]

\* what autoCheckParents(old, i) = new leaves alone in any reading of the claim
FrameOfPropagation(old, new, i) ==
  /\ Len(new) = Len(old)
  /\ \A j \in 1..Len(old) : SameButChecked(old, new, j)
  /\ \A j \in i..Len(old) : new[j] = old[j]
  /\ \A j \in 1..Len(old) :
       new[j] # old[j] => j < i /\ IsTodo(old[j]) /\ old[j].indent < old[i].indent

\* C10 as stated: propagation changes neither line i, nor a line after it, nor
\* a descendant of a line it updates.
C10_NoDescendantOfUpdatedChanges ==
  [][lastOp'.op = "Toggle"
       => LET old == Flipped(lines, lastOp'.idx) IN
          /\ FrameOfPropagation(old, lines', lastOp'.idx)
          /\ \A u \in 1..Len(old) :
               lines'[u] # old[u]
                 => \A d \in Descendants(old, u) : lines'[d] = old[d]]_vars

\* C10 amended: propagation changes only the checked field of ancestors of
\* line i: neither line i, nor a line after it, nor any line off the chain of
\* ancestors of line i, and no kind, text, indent or length.
C10_OnlyAncestorsChange ==
  [][lastOp'.op = "Toggle"
       => LET old == Flipped(lines, lastOp'.idx) IN
          /\ FrameOfPropagation(old, lines', lastOp'.idx)
          /\ \A u \in 1..Len(old) :
               lines'[u] # old[u] => u \in Ancestors(old, lastOp'.idx)]_vars

\* C10 witness: a toggle has unchecked a todo that has a checked sibling below
\* two ancestors, both unchecked.
C10_Witness ==
  /\ lastOp.op = "Toggle"
  /\ ~lines[lastOp.idx].checked
  /\ Cardinality(Ancestors(lines, lastOp.idx)) >= 2
  /\ ~(\E a \in Ancestors(lines, lastOp.idx) : lines[a].checked)
  /\ \E sib \in DirectChildren(lines, ParentOf(lines, lastOp.idx)) \ {lastOp.idx} :
       lines[sib].checked

(***************************************************************************)
(* C11: when a saveNow call completes, no debounce timer armed before the  *)
(* call is pending, and the content updateContent had got last before the  *)
(* call has been written to the store, whatever updateContent calls,       *)
(* timer firings and other saveNow calls came in between.                  *)
(***************************************************************************)
Written(log, c) == \E k \in 1..Len(log) : log[k] = c

C11_FlushLosesNoEdit ==
  [][/\ (lastOp'.op \in {"SaveNow", "SaveNowDone"} /\ lastOp'.idx = 0)
          => timers \cap timers' = {}
     /\ lastOp'.op = "SaveNowDone"
          => LET latest == IF lastOp'.idx = 1 THEN Head(saveNowCalls).latest
                                              ELSE lastUpdate
             IN  latest # Null => Written(store', latest)]_vars

(***************************************************************************)
(* C12: updateContent calls that each arrive before the timer of the one   *)
(* before has fired produce one write: no call of the burst writes, at     *)
(* most one timer is armed, and when it fires it appends the content of    *)
(* the last call to the store and leaves no timer behind.                  *)
(***************************************************************************)
C12_BurstCoalesced ==
  [][/\ Cardinality(timers') <= 1
     /\ lastOp'.op = "EditText" => store' = store
     /\ lastOp'.op = "TimerFire"
          => store' = Append(store, lastUpdate) /\ timers' = {}]_vars

\* the one write of a burst: no stored content is a todo line, typing the
\* marker makes the line one and typing its text is a second updateContent
C12_Witness ==
  /\ lastOp.op = "TimerFire"
  /\ lines = <<[type |-> "todo", text |-> <<"a">>, checked |-> FALSE, indent |-> 0]>>
  /\ content = UncheckedPrefix \o <<"a">>
  /\ store = <<content>>
  /\ lastUpdate = content

(***************************************************************************)
(* C13: an armed debounce timer goes away only by firing or by a flush,    *)
(* both of which write its content, or by the restart of the debounce in   *)
(* a later updateContent; no other event cancels it.                       *)
(***************************************************************************)
C13_CancelledOnlyByFlushOrRestart ==
  [][\A t \in timers \ timers' :
        \/ store' = Append(store, t.content)
        \/ lastOp'.op = "EditText"]_vars

(***************************************************************************)
(* C14: a merge flushes the pending edits of the other note first, so the  *)
(* merged content ends with the content that note was last edited to, not  *)
(* with an earlier snapshot of it.                                         *)
(***************************************************************************)
SourceLatest == IF sourcePending # Null THEN sourcePending ELSE sourceStore

C14_MergeFlushesSource ==
  [][lastOp'.op = "MergeNote"
       => store'[Len(store')] = mergeContent(content, SourceLatest)]_vars

(***************************************************************************)
(* C15: the merged content is the target content, a separator and the      *)
(* source content, the separator being a blank line, three dashes and a    *)
(* blank line when both contents are non-empty and nothing otherwise.      *)
(***************************************************************************)
C15_MergedContent ==
  [][lastOp'.op = "MergeNote"
       => LET merged == store'[Len(store')]
          IN  IF content # <<>> /\ notes # <<>>
                THEN merged = content \o <<"\n", "\n", "-", "-", "-", "\n", "\n">>
                                      \o notes
                ELSE merged = content \o notes]_vars

C15_Witness ==
  /\ lastOp.op = "MergeNote"
  /\ \E t, c \in SaveContents \ {<<>>} : content = t \o Separator \o c
  /\ store[Len(store)] = content

(***************************************************************************)
(* C16: an edit action or the propagation called with an index that names  *)
(* no line fails at once and leaves the Document unchanged.  Any thrown    *)
(* error is taken for the failure the claim asks for.                      *)
(***************************************************************************)
C16_OutOfRangeFailsFast ==
  [][lastOp'.op \in {"TypeError", "Propagate"}
       => /\ lastOp'.idx \notin DOMAIN lines
          /\ lastOp'.op = "TypeError"
          /\ lines' = lines
          /\ content' = content]_vars

(***************************************************************************)
(* C17: in every reachable state no line's text holds a line break,        *)
(* whatever text EditText is given, a pasted text of several lines         *)
(* included.                                                               *)
(***************************************************************************)
HasLineBreak(t) == \E j \in 1..Len(t) : t[j] = NL

C17_NoLineBreakInText == \A k \in 1..Len(lines) : ~HasLineBreak(lines[k].text)

(***************************************************************************)
(* C18: parseContent is total: every content parses, without error, to a   *)
(* Document of at least one well-formed line; the empty content gives      *)
(* exactly one empty Text line and any other content one line per          *)
(* newline-separated raw line, that is one more than it has line breaks.   *)
(***************************************************************************)
BreakPositions(c) == { j \in 1..Len(c) : c[j] = NL }

IsLine(l) ==
  /\ DOMAIN l = {"type", "text", "checked", "indent"}
  /\ l.type \in {"text", "todo"}
  /\ l.checked \in BOOLEAN
  /\ l.indent \in Nat
  /\ l.text \in Seq({l.text[j] : j \in 1..Len(l.text)})

C18_ParseTotal ==
  LET d == parseContent(content) IN
  /\ Len(d) >= 1
  /\ \A k \in 1..Len(d) : IsLine(d[k])
  /\ content = <<>> => d = <<[type |-> "text", text |-> <<>>, checked |-> FALSE,
                              indent |-> 0]>>
  /\ content # <<>> => Len(d) = Cardinality(BreakPositions(content)) + 1
  /\ lines = d

C18_Witness ==
  /\ Cardinality(BreakPositions(content)) = 1
  /\ content[Len(content)] = NL
  /\ Len(lines) = 2
  /\ lines = parseContent(content)

(***************************************************************************)
(* C19: parseContent classifies each raw line on its own.  A raw line made *)
(* of k two-space markers, then "- [x] " or "- [ ] ", then a rest is a     *)
(* Todo of indent k, checked as the marker says, whose text is the rest;   *)
(* any other raw line is a Text line, indent 0 and unchecked, whose text   *)
(* is the whole raw line with its leading spaces.                          *)
(***************************************************************************)
KthBreak(c, k) ==
  CHOOSE j \in BreakPositions(c) :
    Cardinality({ i \in BreakPositions(c) : i <= j }) = k

RawLine(c, k) ==
  LET first == IF k = 1 THEN 1 ELSE KthBreak(c, k - 1) + 1
      last  == IF k = Cardinality(BreakPositions(c)) + 1 THEN Len(c)
                                                         ELSE KthBreak(c, k) - 1
  IN  [j \in 1..(last - first + 1) |-> c[first + j - 1]]

IsMarked(r, n, c) ==
  /\ Len(r) >= 2 * n + 6
  /\ \A j \in 1..(2 * n) : r[j] = " "
  /\ r[2 * n + 1] = "-"
  /\ r[2 * n + 2] = " "
  /\ r[2 * n + 3] = "["
  /\ r[2 * n + 4] = (IF c THEN "x" ELSE " ")
  /\ r[2 * n + 5] = "]"
  /\ r[2 * n + 6] = " "

Classified(r, l) ==
  IF \E n \in 0..Len(r), c \in BOOLEAN : IsMarked(r, n, c)
  THEN \E n \in 0..Len(r), c \in BOOLEAN :
         /\ IsMarked(r, n, c)
         /\ l = [type |-> "todo", checked |-> c, indent |-> n,
                 text |-> [j \in 1..(Len(r) - 2 * n - 6) |-> r[2 * n + 6 + j]]]
  ELSE l = [type |-> "text", text |-> r, checked |-> FALSE, indent |-> 0]

C19_LinesClassified ==
  LET d == parseContent(content) IN
  \A k \in 1..Len(d) : Classified(RawLine(content, k), d[k])

C19_Witness ==
  /\ Len(lines) = 2
  /\ lines = parseContent(content)
  /\ lines[1].type = "todo" /\ lines[1].indent = MaxIndent + 1 /\ lines[1].checked
  /\ lines[2].type = "text" /\ StartsWith(lines[2].text, <<" ", " ", " ", "-">>)

(***************************************************************************)
(* C20: Split(i) inserts exactly one new empty line right after line i and *)
(* leaves the lines up to i and the former lines after i unchanged and in  *)
(* order; the new line is an unchecked Todo of line i's indent when line i *)
(* is a Todo and a Text line otherwise; the focus directive names the new  *)
(* line.                                                                   *)
(***************************************************************************)
C20_SplitInsertsOne ==
  [][lastOp'.op = "Enter"
       => LET i == lastOp'.idx IN
          /\ Len(lines') = Len(lines) + 1
          /\ \A k \in 1..i : lines'[k] = lines[k]
          /\ \A k \in (i + 1)..Len(lines) : lines'[k + 1] = lines[k]
          /\ lines'[i + 1] =
               (IF lines[i].type = "todo"
                THEN [type |-> "todo", text |-> <<>>, checked |-> FALSE,
                      indent |-> lines[i].indent]
                ELSE [type |-> "text", text |-> <<>>, checked |-> FALSE,
                      indent |-> 0])
          /\ focusIndexRef' = i + 1]_vars

C20_Witness ==
  /\ lastOp.op = "Enter"
  /\ lastOp.idx = 1
  /\ Len(lines) = 3
  /\ focusIndexRef = 2
  /\ lines[1].type = "todo" /\ lines[1].checked /\ lines[1].indent = 1
  /\ lines[2] = [type |-> "todo", text |-> <<>>, checked |-> FALSE, indent |-> 1]
  /\ lines[3].type = "text" /\ lines[3].text # <<>>

(***************************************************************************)
(* C21: a toggle never acts on a Text line, whose checked flag and whole   *)
(* Document stay as they are; on a Todo line it flips the checked flag of  *)
(* exactly that line and then runs the propagation from it, which leaves   *)
(* the line itself and the lines after it alone.                           *)
(***************************************************************************)
C21_ToggleFlipsTodoOnly ==
  [][lastOp'.op = "Toggle"
       => LET i == lastOp'.idx IN
          /\ lines[i].type = "todo"
          /\ lines'[i] = Flipped(lines, i)[i]
          /\ lines' = autoCheckParents(Flipped(lines, i), i)
          /\ \A k \in 1..Len(lines) : lines[k].type = "text" => lines'[k] = lines[k]
          /\ \A k \in (i + 1)..Len(lines) : lines'[k] = lines[k]
          /\ Len(lines') = Len(lines)]_vars

C21_Witness ==
  /\ lastOp = [op |-> "Toggle", idx |-> 2]
  /\ Len(lines) = 2
  /\ lines[1].type = "text" /\ ~lines[1].checked
  /\ lines[2].type = "todo" /\ lines[2].checked /\ lines[2].indent = 0

(***************************************************************************)
(* C22: a text edit of a Text line whose new text begins with the checked  *)
(* or the unchecked todo prefix turns that line, in place, into a Todo of  *)
(* indent 0, checked as the prefix says, whose text is the new text        *)
(* without the six characters of the prefix; and a text edit (a change     *)
(* event or the literal-indent Tab) changes the kind of a line in no other *)
(* way.                                                                    *)
(***************************************************************************)
CoercedTo(ls, i, t, c) ==
  [ls EXCEPT ![i] = [type |-> "todo", text |-> SubSeq(t, 7, Len(t)),
                     checked |-> c, indent |-> 0]]

C22_EditCoercesMarkedText ==
  [][/\ \A i \in 1..Len(lines), t \in CoerceTexts, c \in BOOLEAN :
          (lines[i].type = "text" /\ IsMarked(t, 0, c))
            => updateText(lines, i, t) = CoercedTo(lines, i, t, c)
     /\ lastOp'.op = "EditText"
          => \E t \in CoerceTexts : lines' = updateText(lines, lastOp'.idx, t)
     /\ lastOp'.op \in {"EditText", "TabText"}
          => /\ Len(lines') = Len(lines)
             /\ \A k \in 1..Len(lines) :
                  lines'[k].type # lines[k].type
                    => /\ lastOp'.op = "EditText"
                       /\ k = lastOp'.idx
                       /\ lines[k].type = "text"
                       /\ \E t \in CoerceTexts, c \in BOOLEAN :
                            /\ IsMarked(t, 0, c)
                            /\ lines' = CoercedTo(lines, k, t, c)]_vars

C22_Witness ==
  /\ lastOp = [op |-> "EditText", idx |-> 1]
  /\ lines[1] = [type |-> "todo", text |-> <<"a">>, checked |-> TRUE, indent |-> 0]

(***************************************************************************)
(* C23: a text edit of a Todo line, or one whose new text has no todo      *)
(* prefix, puts the new text in line i as it is and changes nothing else:  *)
(* the kind, checked flag and indent of line i and every other line stay,  *)
(* so no parent is re-evaluated.                                           *)
(***************************************************************************)
Retexted(ls, i, t) ==
  [ls EXCEPT ![i] = [type |-> ls[i].type, text |-> t,
                     checked |-> ls[i].checked, indent |-> ls[i].indent]]

C23_EditReplacesTextOnly ==
  [][/\ \A i \in 1..Len(lines), t \in CoerceTexts :
          (lines[i].type = "todo" \/ ~(\E c \in BOOLEAN : IsMarked(t, 0, c)))
            => updateText(lines, i, t) = Retexted(lines, i, t)
     /\ \A i \in 1..Len(lines) :
          (lastOp'.op = "EditText" /\ lastOp'.idx = i /\ lines[i].type = "todo")
            => \E t \in CoerceTexts : lines' = Retexted(lines, i, t)
     /\ \A i \in 1..Len(lines) :
          (lastOp'.op = "EditText" /\ lastOp'.idx = i /\ lines'[i].type = "text")
            => \E t \in CoerceTexts :
                 /\ ~(\E c \in BOOLEAN : IsMarked(t, 0, c))
                 /\ lines' = Retexted(lines, i, t)]_vars

C23_Witness ==
  /\ lastOp = [op |-> "EditText", idx |-> 2]
  /\ Len(lines) = 2
  /\ lines[1].type = "todo" /\ ~lines[1].checked /\ lines[1].indent = 0
  /\ lines[2] = [type |-> "todo", text |-> UncheckedPrefix, checked |-> TRUE, indent |-> 1]

(***************************************************************************)
(* C24: an indent key (Ctrl+Tab or plain Tab) on a Todo line sets its      *)
(* indent to the smaller of indent + 1 and 3 and changes nothing else in   *)
(* the Document; at indent 3 the Document is unchanged.                    *)
(***************************************************************************)
C24_IndentClampsTodo ==
  [][\A i \in 1..Len(lines) :
       (lastOp'.op \in {"CtrlTab", "Tab"} /\ lastOp'.idx = i /\ lines[i].type = "todo")
         => /\ lines' = [lines EXCEPT
                           ![i] = [type |-> "todo", text |-> lines[i].text,
                                   checked |-> lines[i].checked,
                                   indent |-> IF lines[i].indent + 1 <= 3
                                              THEN lines[i].indent + 1 ELSE 3]]
            /\ lines[i].indent = 3 => lines' = lines /\ content' = content]_vars

C24_Witness ==
  /\ lastOp.op = "Tab"
  /\ Len(lines) = 2
  /\ lines[lastOp.idx].type = "todo"
  /\ lines[lastOp.idx].indent = 3
  /\ lines[lastOp.idx].checked

(***************************************************************************)
(* C25: the indent key Ctrl+Tab on a Text line turns the line, in place,   *)
(* into an unchecked Todo of indent 0 with the same text and leaves every  *)
(* other line alone.                                                       *)
(***************************************************************************)
C25_CtrlTabConvertsText ==
  [][\A i \in 1..Len(lines) :
       (lastOp'.op = "CtrlTab" /\ lastOp'.idx = i /\ lines[i].type = "text")
         => lines' = [lines EXCEPT
                        ![i] = [type |-> "todo", text |-> lines[i].text,
                                checked |-> FALSE, indent |-> 0]]]_vars

\* C25 as stated: the indent key on a Text line leaves the Document as it is
C25_IndentOnTextIsNoOp ==
  [][\A i \in 1..Len(lines) :
       (lastOp'.op = "CtrlTab" /\ lastOp'.idx = i /\ lines[i].type = "text")
         => lines' = lines]_vars

C25_Witness ==
  /\ lastOp.op = "CtrlTab"
  /\ lines[lastOp.idx] = [type |-> "todo", text |-> IndentMarker,
                          checked |-> FALSE, indent |-> 0]

(***************************************************************************)
(* C26: Shift+Tab on a Todo of indent above 0 lowers the indent by one and *)
(* keeps kind, text and checked; on a Todo of indent 0 it makes the line a *)
(* Text line with the same text, unchecked, indent 0; on a Text line it    *)
(* leaves the Document as it is.                                           *)
(***************************************************************************)
C26_Outdent ==
  [][\A i \in 1..Len(lines) :
       (lastOp'.op = "ShiftTab" /\ lastOp'.idx = i)
         => lines' =
              IF lines[i].type = "text" THEN lines
              ELSE IF lines[i].indent > 0
              THEN [lines EXCEPT
                      ![i] = [type |-> "todo", text |-> lines[i].text,
                              checked |-> lines[i].checked,
                              indent |-> lines[i].indent - 1]]
              ELSE [lines EXCEPT
                      ![i] = [type |-> "text", text |-> lines[i].text,
                              checked |-> FALSE, indent |-> 0]]]_vars

C26_Witness ==
  /\ lastOp.op = "ShiftTab"
  /\ lines[lastOp.idx].type = "todo"
  /\ lines[lastOp.idx].checked
  /\ lines[lastOp.idx].indent = 0

(***************************************************************************)
(* C27: Backspace on a Todo line with empty text never removes the line:   *)
(* above indent 0 it only lowers the indent by one, kind and checked kept; *)
(* at indent 0 it makes the line an empty Text line; the Document keeps    *)
(* its length and the focus request names line i.                          *)
(***************************************************************************)
C27_BackspaceKeepsTodoLine ==
  [][\A i \in 1..Len(lines) :
       (/\ lastOp'.op = "Backspace" /\ lastOp'.idx = i
        /\ lines[i].type = "todo" /\ lines[i].text = <<>>)
         => /\ Len(lines') = Len(lines)
            /\ \A k \in 1..Len(lines) : k # i => lines'[k] = lines[k]
            /\ lines'[i] = IF lines[i].indent > 0
                           THEN [type |-> "todo", text |-> <<>>,
                                 checked |-> lines[i].checked,
                                 indent |-> lines[i].indent - 1]
                           ELSE [type |-> "text", text |-> <<>>,
                                 checked |-> FALSE, indent |-> 0]
            /\ focusIndexRef' = i]_vars

C27_Witness ==
  /\ lastOp = [op |-> "Backspace", idx |-> 2]
  /\ focusIndexRef = 2
  /\ Len(lines) = 3
  /\ lines[2] = [type |-> "todo", text |-> <<>>, checked |-> TRUE, indent |-> 1]

(***************************************************************************)
(* C28: Backspace on an empty Text line of a Document of more than one     *)
(* line removes exactly that line, the others keep their values and their  *)
(* order, and the focus request names the line before it (the first line   *)
(* when line i was the first); Backspace on a line whose text is not empty *)
(* changes nothing.                                                        *)
(***************************************************************************)
C28_BackspaceRemovesEmptyText ==
  [][\A i \in 1..Len(lines) :
       (lastOp'.op = "Backspace" /\ lastOp'.idx = i)
         => /\ (lines[i].type = "text" /\ lines[i].text = <<>> /\ Len(lines) > 1)
                 => /\ Len(lines') = Len(lines) - 1
                    /\ \A k \in 1..(i - 1) : lines'[k] = lines[k]
                    /\ \A k \in i..(Len(lines) - 1) : lines'[k] = lines[k + 1]
                    /\ focusIndexRef' = IF i - 1 > 1 THEN i - 1 ELSE 1
            /\ lines[i].text # <<>>
                 => /\ lines' = lines
                    /\ content' = content
                    /\ focusIndexRef' = focusIndexRef
                    /\ UNCHANGED hookVars]_vars

C28_Witness ==
  /\ lastOp = [op |-> "Backspace", idx |-> 3]
  /\ focusIndexRef = 2
  /\ Len(lines) = 2
  /\ lines[1].text = <<"a">>
  /\ lines[2].type = "todo"

(***************************************************************************)
(* C29: an arrow key changes neither the Document nor anything that is     *)
(* saved; ArrowUp asks for the focus on line i - 1 exactly when line i is  *)
(* not the first, ArrowDown on line i + 1 exactly when line i is not the   *)
(* last, and otherwise no focus is asked for.                              *)
(***************************************************************************)
C29_MoveFocusOnlyDirects ==
  [][\A i \in 1..Len(lines) :
       (lastOp'.op \in {"ArrowUp", "ArrowDown"} /\ lastOp'.idx = i)
         => /\ lines' = lines
            /\ content' = content
            /\ isInternalChange' = isInternalChange
            /\ focusIndexRef' = focusIndexRef
            /\ UNCHANGED hookVars
            /\ lastOp'.op = "ArrowUp"
                 => directive' = IF i > 1 THEN [kind |-> "focus", at |-> i - 1]
                                          ELSE [kind |-> "none", at |-> 0]
            /\ lastOp'.op = "ArrowDown"
                 => directive' = IF i < Len(lines) THEN [kind |-> "focus", at |-> i + 1]
                                                   ELSE [kind |-> "none", at |-> 0]]_vars

C29_Witness ==
  /\ lastOp = [op |-> "ArrowUp", idx |-> 2]
  /\ directive = [kind |-> "focus", at |-> 1]
  /\ Len(lines) = 2

(***************************************************************************)
(* C30: plain Tab in a Text line with the selection [start, end) puts two  *)
(* spaces in place of exactly the selected characters, keeps the line a    *)
(* Text line and every other line as it was, commits the Document, and     *)
(* asks for the caret at start + 2.                                        *)
(***************************************************************************)
Spaced(ls, i, s, e) ==
  [ls EXCEPT ![i] = [type |-> "text",
                     text |-> SubSeq(ls[i].text, 1, s) \o <<" ", " ">>
                                \o SubSeq(ls[i].text, e + 1, Len(ls[i].text)),
                     checked |-> ls[i].checked, indent |-> ls[i].indent]]

C30_InsertIndentSpaces ==
  [][\A i \in 1..Len(lines) :
       (lastOp'.op = "TabText" /\ lastOp'.idx = i)
         => /\ lines[i].type = "text"
            /\ \A s \in 0..Len(lines[i].text) : \A e \in s..Len(lines[i].text) :
                 /\ Len(insertIndentSpaces(lines[i].text, s, e))
                      = Len(lines[i].text) - (e - s) + 2
                 /\ [lines EXCEPT ![i] = [@ EXCEPT !.text = insertIndentSpaces(@, s, e)]]
                      = Spaced(lines, i, s, e)
            /\ \E s \in 0..Len(lines[i].text) : \E e \in s..Len(lines[i].text) :
                 /\ lines' = Spaced(lines, i, s, e)
                 /\ directive' = [kind |-> "caret", at |-> s + 2]
            /\ content' = serializeLines(lines')
            /\ pendingContentRef' = content'
            /\ saveTimeoutRef' # NoTimer]_vars

C30_Witness ==
  /\ lastOp = [op |-> "TabText", idx |-> 1]
  /\ directive = [kind |-> "caret", at |-> 3]
  /\ lines[1] = [type |-> "text", text |-> <<"a", " ", " ">>,
                 checked |-> FALSE, indent |-> 0]

(***************************************************************************)
(* C31: once an action of the editor has committed, the content the host   *)
(* got last is the serialization of the editor's Document: every action    *)
(* that changes the Document hands serializeLines of the new Document to   *)
(* onChange in the same step, so the content prop, the content waiting for *)
(* the debounced save and the content of the armed save timer are that     *)
(* serialization too.                                                      *)
(***************************************************************************)
C31_CommitHandsSerialization ==
  lastUpdate # Null
    => /\ lastUpdate = serializeLines(lines)
       /\ content = lastUpdate
       /\ pendingContentRef = lastUpdate
       /\ \E t \in timers : t.id = saveTimeoutRef /\ t.content = lastUpdate

C31_Witness ==
  /\ lastOp = [op |-> "Enter", idx |-> 1]
  /\ Len(lines) = 2
  /\ lines[1].type = "todo" /\ lines[1].indent = 1
  /\ lastUpdate = IndentMarker \o CheckedPrefix \o <<NL>> \o IndentMarker \o UncheckedPrefix

(***************************************************************************)
(* C32: whenever the content of the note changes by a cause other than a   *)
(* commit of the editor (a load or reload, 'Add Todo Item'), the editor's  *)
(* Document becomes parseContent of the new content, whatever the editor   *)
(* did before, a commit that left the serialized content as it was         *)
(* included.                                                               *)
(***************************************************************************)
C32_ExternalChangeReparses ==
  [][lastOp'.op \in {"ContentSync", "AddTodo"}
       => lines' = parseContent(content')]_vars

(***************************************************************************)
(* C33: for every Document and every line index of it, autoCheckParents    *)
(* leaves its loop within as many passes as the Document has lines and     *)
(* reads no line outside the Document: the indices it visits start at the  *)
(* changed line and strictly decrease, the last one visited is not a Todo, *)
(* or has indent 0, or has no parent; and when the changed line is not a   *)
(* Todo or has indent 0 the Document is returned as it is.                 *)
(***************************************************************************)
C33_PropagationTerminates ==
  \A i \in 1..Len(lines) :
    LET r == AutoCheckSteps(lines, i, Len(lines))
        n == Len(r.visits)
    IN /\ r.done
       /\ r.lines = autoCheckParents(lines, i)
       /\ n >= 1 /\ r.visits[1] = i
       /\ \A k \in 1..n : r.visits[k] \in 1..Len(lines)
       /\ \A k \in 1..(n - 1) : r.visits[k + 1] < r.visits[k]
       /\ LET last == r.visits[n]
          IN \/ r.lines[last].type # "todo"
             \/ r.lines[last].indent = 0
             \/ ~(\E p \in 1..(last - 1) :
                    /\ r.lines[p].type = "todo"
                    /\ r.lines[p].indent < r.lines[last].indent
                    /\ \A q \in (p + 1)..(last - 1) : r.lines[q].type = "todo")
       /\ (lines[i].type # "todo" \/ lines[i].indent = 0)
            => (autoCheckParents(lines, i) = lines /\ r.visits = <<i>>)

C33_Witness ==
  /\ lastOp = [op |-> "Toggle", idx |-> 3]
  /\ Len(lines) = 3
  /\ \A k \in 1..3 : lines[k].type = "todo" /\ lines[k].indent = k - 1 /\ lines[k].checked
  /\ AutoCheckSteps(lines, 3, 3).visits = <<3, 2, 1>>
  /\ AutoCheckSteps(lines, 1, 3).visits = <<1>>

(***************************************************************************)
(* C34: every focus request an action leaves (Enter: the new line;         *)
(* Backspace on a todo: the line itself; Backspace removing a text line:   *)
(* the line before, or the first) and every focus call an arrow key or the *)
(* focus effect makes names a line of the Document as the action left it;  *)
(* the focus effect applies a request once and clears it.                  *)
(***************************************************************************)
C34_FocusDirectiveValid ==
  /\ focusIndexRef # NoFocus => focusIndexRef \in 1..Len(lines)
  /\ directive.kind = "focus" => directive.at \in 1..Len(lines)
  /\ lastOp.op = "Enter" => focusIndexRef = lastOp.idx + 1
  /\ (lastOp.op = "Backspace" /\ focusIndexRef # NoFocus)
       => \/ focusIndexRef = lastOp.idx
          \/ focusIndexRef = (IF lastOp.idx - 1 > 1 THEN lastOp.idx - 1 ELSE 1)
  /\ lastOp.op = "FocusEffect"
       => /\ focusIndexRef = NoFocus
          /\ directive = [kind |-> "focus", at |-> lastOp.idx]

C34_Witness ==
  /\ lastOp = [op |-> "FocusEffect", idx |-> 1]
  /\ Len(lines) = 1
  /\ lines[1].type = "todo"
  /\ lines[1].text # <<>>

(***************************************************************************)
(* C35: whenever the content passed to updateContent last is not what the  *)
(* store holds, pendingContentRef holds exactly that content; it is null   *)
(* only when the store is up to date with the last edit.                   *)
(***************************************************************************)
C35_PendingHoldsUnwritten ==
  (/\ mounted
   /\ lastUpdate # Null
   /\ (store = <<>> \/ store[Len(store)] # lastUpdate))
    => pendingContentRef = lastUpdate

(***************************************************************************)
(* C36: once the merge has written the merged content to the note of this  *)
(* window, no write of the note's debounced save replaces it: from the     *)
(* write of the merge until the reload, and so when the other note is      *)
(* deleted, the stored content of this note is the merged content.         *)
(***************************************************************************)
C36_MergedContentStays ==
  merge.pc \in {"written", "deleted"} => store[Len(store)] = merge.merged

(***************************************************************************)
(* C37: the merge deletes the other note only after its write of the       *)
(* merged content has been done; when the flush or that write is rejected  *)
(* the other note is not deleted and keeps its content.                    *)
(***************************************************************************)
C37_DeleteOnlyAfterWrite ==
  [][/\ (sourceStore # Null /\ sourceStore' = Null)
          => /\ merge.pc = "written"
             /\ \E k \in 1..Len(store) : store[k] = merge.merged
     /\ merge'.pc = "failed"
          => /\ sourceStore' # Null
             /\ sourceStore' = sourceStore]_vars

C37_Witness ==
  /\ lastOp.op = "MergeWriteFail"
  /\ merge.pc = "failed"
  /\ sourceStore = <<"a">>
  /\ merge.merged = <<"b">> \o Separator \o <<"a">>

(***************************************************************************)
(* C38: Split, EditText, Indent, Outdent, DeleteBackward and               *)
(* InsertIndentSpaces run no propagation.  A step of one of them changes   *)
(* at most the line it is applied to, or inserts exactly one line after it,*)
(* or removes exactly that line; every other line keeps its kind, text,    *)
(* checked state and indent, so no parent's checked state is recomputed.   *)
(***************************************************************************)
StructuralOps == {"Enter", "EditText", "CtrlTab", "Tab", "TabText", "ShiftTab", "Backspace"}

C38_StructuralEditsKeepOtherLines ==
  [][lastOp'.op \in StructuralOps
       => LET i == lastOp'.idx
              n == Len(lines)
          IN  \/ /\ Len(lines') = n
                 /\ \A k \in 1..n : k # i => lines'[k] = lines[k]
              \/ /\ Len(lines') = n + 1
                 /\ lastOp'.op = "Enter"
                 /\ \A k \in 1..i : lines'[k] = lines[k]
                 /\ \A k \in (i + 1)..n : lines'[k + 1] = lines[k]
              \/ /\ Len(lines') = n - 1
                 /\ lastOp'.op = "Backspace"
                 /\ \A k \in 1..(i - 1) : lines'[k] = lines[k]
                 /\ \A k \in (i + 1)..n : lines'[k - 1] = lines[k]]_vars

\* the second todo has just become the only child of the first and is
\* checked; the first is still unchecked
C38_Witness ==
  /\ lastOp = [op |-> "CtrlTab", idx |-> 2]
  /\ Len(lines) = 2
  /\ lines[1] = TodoLine(<<>>, FALSE, 0)
  /\ lines[2] = TodoLine(<<>>, TRUE, 1)

(***************************************************************************)
(* C39: Enter on a text line i followed by Backspace on the new line i+1   *)
(* gives back the Document as it was and asks for the focus on line i.     *)
(* Enter on a todo line i of indent k followed by k+2 Backspaces on the    *)
(* new line gives back the Document as it was; until the last of them the  *)
(* new line is still there.  Every Enter step is that split and every      *)
(* Backspace step is one such deletion.                                    *)
(***************************************************************************)
C39_SplitThenDeleteRestores ==
  [][/\ lastOp'.op = "Enter"
          => LET i == lastOp'.idx
                 k == lines[i].indent
             IN  /\ lines' = splitLine(lines, i)
                 /\ focusIndexRef' = i + 1
                 /\ lines[i].type = "text"
                      => /\ deleteBackward(lines', i + 1) = lines
                         /\ deleteBackwardFocus(lines', i + 1, focusIndexRef') = i
                 /\ lines[i].type = "todo"
                      => /\ DeleteTimes(lines', i + 1, k + 2) = lines
                         /\ deleteBackwardFocus(DeleteTimes(lines', i + 1, k + 1),
                                                i + 1, NoFocus) = i
                         /\ \A m \in 0..(k + 1) :
                              /\ Len(DeleteTimes(lines', i + 1, m)) = Len(lines) + 1
                              /\ DeleteTimes(lines', i + 1, m)[i + 1].text = <<>>
     /\ lastOp'.op = "Backspace"
          => /\ lines' = deleteBackward(lines, lastOp'.idx)
             /\ focusIndexRef' = deleteBackwardFocus(lines, lastOp'.idx, focusIndexRef)]_vars

\* the last of the Backspaces has removed the line Enter made after a todo
\* of indent 3
C39_Witness ==
  /\ lastOp = [op |-> "Backspace", idx |-> 3]
  /\ focusIndexRef = 2
  /\ lines = <<TextLine(<<"a">>), TodoLine(<<"a">>, TRUE, MaxIndent)>>

====
